---- MODULE Spec2Model ----
(***************************************************************************)
(* A model of basecall.py: the acquisition loop that watches a directory   *)
(* of fast5 files, basecalls them with Guppy in batches, merges Guppy's    *)
(* output into consolidated files and recomputes run statistics.           *)
(*                                                                         *)
(* Strings are sequences of tokens.  A token is one character (" ", "a",   *)
(* "b") or a fixed substring that the code treats as a unit (".fast5",     *)
(* "filename").  File names are token sequences ending in ".fast5", so     *)
(* str.strip(), str.startswith() and the ordering of paths are computed    *)
(* on the text as the code computes them.                                  *)
(***************************************************************************)
EXTENDS Integers, Sequences, FiniteSets, TLC

\* ------------------------------------------------------------------ bounds

\* Largest --batch_size tried (check_arguments requires batch_size >= 1).
MaxBatch == 2
\* Largest --stop_time tried, in minutes (check_arguments requires >= 1).
MaxStop == 2
\* The loop is followed for at most this many Guppy invocations.
MaxInvocations == 3
\* get_n50 is tried on at most this many lengths, each at most MaxLength.
MaxReads == 4
MaxLength == 3
\* The statistics are tried on summaries of at most this many reads, with
\* --trans_window at most MaxWindow minutes.
MaxRows == 2
MaxWindow == 2
\* The barcode distribution is tried on summaries of at most this many reads.
MaxDistRows == 3

\* ---------------------------------------------------------------- doubles

\* Python floats are IEEE-754 doubles: 53 significant bits, results rounded
\* to nearest, ties to even.
MantBits == 53

\* A non-negative double is written on a binary grid: bit i weighs
\* 2^(i - FracBits).  The smallest weight needed is the last mantissa bit of
\* 10 / 60 = 0x1.5555555555555p-3, which is 2^-(3 + 52).
FracBits == 3 + (MantBits - 1)
Width == FracBits + 5
BitIdx == 0 .. (Width - 1)

DblZero == [i \in BitIdx |-> 0]

\* float(n) for a small non-negative integer n.
IntToDbl(n) ==
  LET RECURSIVE BitOf(_, _)
      BitOf(m, k) == IF k = 0 THEN m % 2 ELSE BitOf(m \div 2, k - 1)
  IN [i \in BitIdx |-> IF i < FracBits THEN 0 ELSE BitOf(n, i - FracBits)]

\* The carry into position i of x + y: some lower position holds two ones
\* and every position between holds at least one.
CarryInto(x, y, i) ==
  \E j \in 0 .. (i - 1) :
    /\ x[j] + y[j] = 2
    /\ \A k \in (j + 1) .. (i - 1) : x[k] + y[k] # 0

\* The exact sum of two grid values.
BitAdd(x, y) ==
  [i \in BitIdx |-> (x[i] + y[i] + (IF CarryInto(x, y, i) THEN 1 ELSE 0)) % 2]

\* Index of the highest set bit, -1 for zero.
TopBit(x) ==
  LET S == {i \in BitIdx : x[i] = 1}
  IN IF S = {} THEN -1 ELSE CHOOSE i \in S : \A j \in S : j <= i

\* Round an exact grid value to MantBits significant bits, ties to even.
RoundDbl(x) ==
  LET drop == TopBit(x) - (MantBits - 1)
  IN IF drop <= 0 THEN x
     ELSE LET half == x[drop - 1]
              sticky == \E j \in BitIdx : j < drop - 1 /\ x[j] = 1
              odd == x[drop] = 1
              trunc == [i \in BitIdx |-> IF i < drop THEN 0 ELSE x[i]]
              ulp == [i \in BitIdx |-> IF i = drop THEN 1 ELSE 0]
          IN IF half = 1 /\ (sticky \/ odd)
             THEN CHOOSE r \in {BitAdd(t, u) : t \in {trunc}, u \in {ulp}} : TRUE
             ELSE trunc

\* float + float: the exact sum, computed once, then rounded.
DblAdd(x, y) == CHOOSE r \in {RoundDbl(exact) : exact \in {BitAdd(x, y)}} : TRUE

\* float >= float.
DblGE(x, y) ==
  LET D == {i \in BitIdx : x[i] # y[i]}
  IN IF D = {} THEN TRUE ELSE x[CHOOSE i \in D : \A j \in D : j <= i] = 1

\* tick_seconds / 60 with tick_seconds = 10: the double nearest to 1/6,
\* 0x1.5555555555555p-3, whose mantissa bits alternate 1, 0 from the top.
TickMinutes ==
  [i \in BitIdx |-> IF i <= MantBits - 1 /\ i % 2 = 0 THEN 1 ELSE 0]

\* ------------------------------------------------------------------ text

SP == " "
NL == "\n"
EXT == ".fast5"
HeaderLabel == "filename"

Whitespace == {SP, NL}

\* The code point of a token's first character (tokens that can meet at the
\* same position of two names start with different characters).
CharCode(t) ==
  CASE t = SP -> 32
    [] t = NL -> 10
    [] t = EXT -> 46
    [] t = "a" -> 97
    [] t = "b" -> 98
    [] t = HeaderLabel -> 102
    [] OTHER -> 48

\* str < str of Python: the first differing character decides, a proper
\* prefix is smaller.
RECURSIVE StrLess(_, _)
StrLess(s, t) ==
  IF s = <<>> THEN t # <<>>
  ELSE IF t = <<>> THEN FALSE
  ELSE IF Head(s) = Head(t) THEN StrLess(Tail(s), Tail(t))
  ELSE CharCode(Head(s)) < CharCode(Head(t))

\* str.lstrip() / str.rstrip() / str.strip() with no argument.
RECURSIVE LStrip(_)
LStrip(s) ==
  IF s # <<>> /\ Head(s) \in Whitespace THEN LStrip(Tail(s)) ELSE s

RECURSIVE RStrip(_)
RStrip(s) ==
  IF s # <<>> /\ s[Len(s)] \in Whitespace
  THEN RStrip(SubSeq(s, 1, Len(s) - 1))
  ELSE s

Strip(s) == RStrip(LStrip(s))

\* The lines a text file yields when iterated: each ends with its "\n",
\* except possibly the last.
FileLines(text) ==
  LET ends == {i \in DOMAIN text : text[i] = NL \/ i = Len(text)}
      End(k) == CHOOSE i \in ends : Cardinality({j \in ends : j <= i}) = k
  IN [k \in 1 .. Cardinality(ends) |->
        SubSeq(text, IF k = 1 THEN 1 ELSE End(k - 1) + 1, End(k))]

Range(s) == {s[i] : i \in DOMAIN s}

\* The sequences of at most n elements of S.
SeqsUpTo(S, n) == UNION {[1 .. k -> S] : k \in 0 .. n}

\* ------------------------------------------------------------- input tree

NameA == <<"a", EXT>>
NameB == <<"b", EXT>>
NameSpA == <<SP, "a", EXT>>
NameFilenameA == <<HeaderLabel, "a", EXT>>

Dirs == {"d1", "d2"}
DirRank(d) == IF d = "d1" THEN 1 ELSE 2

\* x.resolve() of a globbed file: the directory below in_dir and the name.
Fast5(d, n) == [dir |-> d, name |-> n]

\* Files that may appear under in_dir while the loop runs.
Universe ==
  {Fast5("d1", NameA), Fast5("d2", NameA), Fast5("d1", NameSpA), Fast5("d2", NameB)}

\* pathlib's PurePath.__lt__: the parts are compared in order.
PathLess(p, q) ==
  IF p.dir # q.dir THEN DirRank(p.dir) < DirRank(q.dir)
  ELSE StrLess(p.name, q.name)

\* sorted(paths): ascending, as a sequence.
Sorted(S) ==
  [k \in 1 .. Cardinality(S) |->
     CHOOSE x \in S : Cardinality({y \in S : PathLess(y, x)}) = k - 1]

Take(s, n) == SubSeq(s, 1, IF Len(s) < n THEN Len(s) ELSE n)

\* ----------------------------------------------------------------- ledger

\* What add_to_already_basecalled writes for a list of files.
RECURSIVE LedgerText(_)
LedgerText(fast5s) ==
  IF fast5s = <<>> THEN <<>>
  ELSE Head(fast5s).name \o <<NL>> \o LedgerText(Tail(fast5s))

\* The set load_already_basecalled builds from the file's text.
StrippedLines(text) == {Strip(l) : l \in Range(FileLines(text))}

\* The base names written in the ledger file, one per line.
LedgerNames(text) ==
  {SubSeq(l, 1, Len(l) - 1) : l \in {x \in Range(FileLines(text)) : x[Len(x)] = NL}}

\* ------------------------------------------------------------ barcode kits

\* The keys of BARCODING with the range that
\* barcode_kit.split('_')[-1].split('-') yields ('none' has none).
Kit(kind, first, last) == [kind |-> kind, first |-> first, last |-> last]
Native1to12 == Kit("native", 1, 12)
Native13to24 == Kit("native", 13, 24)
NoBarcodes == Kit("none", 0, 0)

Digit(n) == <<"0", "1", "2", "3", "4", "5", "6", "7", "8", "9">>[n + 1]
Digits == {Digit(n) : n \in 0 .. 9}

\* 'barcode{:02}'.format(i) for i < 100.
BarcodeName(i) == <<"barcode", Digit(i \div 10), Digit(i % 10)>>
Unclassified == <<"unclassified">>

\* --------------------------------------------------------- Guppy's output

\* One line of sequencing_summary.txt.  The header line holds the column
\* labels: its numeric columns are written -1.
HeaderRow ==
  [filename |-> <<HeaderLabel>>, run_id |-> "run_id", start_time |-> -1,
   sequence_length |-> -1, barcode |-> <<"barcode_arrangement">>]

DataRow(fname, run, start, length, bc) ==
  [filename |-> fname, run_id |-> run, start_time |-> start,
   sequence_length |-> length, barcode |-> bc]

\* Timestamp texts (YYYY-mm-dd_HH-MM-SS) that a log name or the clock yields.
Timestamps == {"t1", "t2"}

\* guppy_basecaller_log-<timestamp>.log, or a log whose name holds none.
LogName(ts) == <<"guppy_basecaller_log", ts, ".log">>

\* What one Guppy run leaves in temp_out, each list in glob order.
Fragment(logs, telemetry, summaries, fastqs) ==
  [logs |-> logs, telemetry |-> telemetry, summaries |-> summaries, fastqs |-> fastqs]

NoFragment == Fragment(<<>>, <<>>, <<>>, <<>>)

\* The fastq file Guppy writes for the reads of one barcode directory.
FastqOf(bc, rows) ==
  [path |-> bc \o <<"/", "fastq_runid">>,
   lines |-> SelectSeq([i \in DOMAIN rows |-> <<rows[i].filename, rows[i].barcode>>],
                       LAMBDA l : l[2] = bc)]

RECURSIVE SeqOfSet(_)
SeqOfSet(S) ==
  IF S = {} THEN <<>>
  ELSE LET x == CHOOSE y \in S : TRUE IN <<x>> \o SeqOfSet(S \ {x})

\* The fragments a successful run on the staged files may produce: one read
\* per staged file, its barcode, length and start time drawn from the given
\* sets, the summary in one file or split over the given number of files,
\* log names and the number of telemetry files drawn from the given sets.
Fragments(staged, inv, LogSets, TelemetryCounts, Cats, Lens, Starts, Splits) ==
  LET RowSet == {DataRow(<<>>, "run1", st, ln, bc) : st \in Starts, ln \in Lens, bc \in Cats}
      Reads == [DOMAIN staged -> RowSet]
      Rows(r) == [i \in DOMAIN staged |-> [r[i] EXCEPT !.filename = staged[i].name]]
      Summaries(rows, k) ==
        IF k = 1 \/ Len(rows) < 2 THEN <<<<HeaderRow>> \o rows>>
        ELSE <<<<HeaderRow>> \o SubSeq(rows, 1, 1),
               <<HeaderRow>> \o SubSeq(rows, 2, Len(rows))>>
      Fastqs(rows) ==
        LET bcs == SeqOfSet({rows[i].barcode : i \in DOMAIN rows})
        IN [j \in DOMAIN bcs |-> FastqOf(bcs[j], rows)]
  IN {Fragment([j \in DOMAIN ls |-> [name |-> LogName(ls[j]), content |-> <<inv, j>>]],
               [j \in 1 .. tc |-> <<inv, j>>],
               Summaries(Rows(r), k),
               Fastqs(Rows(r))) :
        ls \in LogSets, tc \in TelemetryCounts, r \in Reads, k \in Splits}

\* ------------------------------------------------------------------ state

VARIABLES
  batch_size, stop_time, barcodes, trans_window,   \* args
  tree,                                            \* the fast5 files under in_dir
  ledger_mode, ledger,                             \* out_dir/basecalled_filenames
  pc, error,                                       \* position in main, uncaught exception
  minutes_since_last_read, new_fast5s, all_fast5s, \* locals of main
  temp_dir, temp_in, temp_out,                     \* the TemporaryDirectory
  summary_exists, summary,                         \* out_dir/sequencing_summary.txt
  fastq, guppy_logs, guppy_telemetry,              \* out_dir/*.fastq and directories
  translocation_speed, barcode_distribution, totals, \* the reports
  invocations, idle_ticks,                         \* history: Guppy runs, sleeps since work
  submitted, merged,                               \* history: batches given to Guppy, runs merged
  n50_in, n50_out                                  \* an argument and result of get_n50

argVars == <<batch_size, stop_time, barcodes, trans_window>>
ledgerVars == <<ledger_mode, ledger>>
ctlVars == <<pc, error, minutes_since_last_read, new_fast5s, all_fast5s>>
tmpVars == <<temp_dir, temp_in, temp_out>>
outVars == <<summary_exists, summary, fastq, guppy_logs, guppy_telemetry>>
repVars == <<translocation_speed, barcode_distribution, totals>>
histVars == <<invocations, idle_ticks, submitted, merged>>
fnVars == <<n50_in, n50_out>>

vars == <<argVars, tree, ledgerVars, ctlVars, tmpVars, outVars, repVars, histVars, fnVars>>

\* ------------------------------------------------------------- operations

\* load_already_basecalled: the empty set when the file is missing, else the
\* stripped lines of the file.
load_already_basecalled(mode, text) ==
  IF mode = "absent" THEN {} ELSE StrippedLines(text)

\* check_for_reads: the batch and the snapshot of all files.
check_for_reads(size, files, mode, text) ==
  LET already_basecalled == load_already_basecalled(mode, text)
      new_fast5_files == {f \in files : f.name \notin already_basecalled}
  IN [new |-> Take(Sorted(new_fast5_files), size), all |-> files]

\* str(uuid.uuid4()) + '.fast5': a name no staged file has.
UuidName(k) == <<"uuid", Digit(k), EXT>>

\* The turn without the is_file() test: f is copied under its own name.
copy_read_unchecked(staged, f) == Append(staged, [name |-> f.name, src |-> f])

\* One turn of the for loop of copy_reads_to_temp_in: f is copied under its
\* own name, or under a fresh one when that name is taken.
copy_read(staged, f) ==
  LET taken == {staged[i].name : i \in DOMAIN staged}
      new_path == IF f.name \in taken THEN UuidName(Len(staged)) ELSE f.name
  IN Append(staged, [name |-> new_path, src |-> f])

\* line.startswith('filename') on a summary line.
StartsWithFilename(line) ==
  line.filename # <<>> /\ Head(line.filename) = HeaderLabel

\* merge_summary without the include_header test: every line of the source is
\* written.
merge_summary_keeps_header(source, dest_exists, dest) == dest \o source

\* merge_summary: the destination's content after the merge.
merge_summary(source, dest_exists, dest) ==
  LET include_header == ~dest_exists
      Kept(line) == include_header \/ ~StartsWithFilename(line)
  IN dest \o SelectSeq(source, Kept)

\* The for loop of merge_results over the summary files of temp_out.
RECURSIVE merge_summaries(_, _, _)
merge_summaries(sources, dest_exists, dest) ==
  IF sources = <<>> THEN dest
  ELSE merge_summaries(Tail(sources), TRUE, merge_summary(Head(sources), dest_exists, dest))

\* re.search(r'barcode\d\d', path): the first match, <<>> when there is none.
RECURSIVE SearchBarcode(_)
SearchBarcode(path) ==
  IF Len(path) < 3 THEN <<>>
  ELSE IF path[1] = "barcode" /\ path[2] \in Digits /\ path[3] \in Digits
       THEN SubSeq(path, 1, 3)
       ELSE SearchBarcode(Tail(path))

\* get_destination_filename with the pattern barcode\d: one digit is taken.
get_destination_filename_one_digit(kit, source_filename) ==
  IF kit.kind = "none" THEN <<"reads", ".fastq">>
  ELSE LET at == {i \in 1 .. (Len(source_filename) - 1) :
                    source_filename[i] = "barcode" /\ source_filename[i + 1] \in Digits}
       IN IF at = {} THEN Unclassified \o <<".fastq">>
          ELSE LET m == CHOOSE i \in at : \A j \in at : i <= j
               IN SubSeq(source_filename, m, m + 1) \o <<".fastq">>

\* get_destination_filename, as the name below out_dir.
get_destination_filename(kit, source_filename) ==
  IF kit.kind = "none" THEN <<"reads", ".fastq">>
  ELSE LET match == SearchBarcode(source_filename)
       IN (IF match # <<>> THEN match ELSE Unclassified) \o <<".fastq">>

\* A directory or a set of files: names to contents.
Files(d) == DOMAIN d
WriteFile(d, name, content) == (name :> content) @@ d
ReadFile(d, name) == IF name \in DOMAIN d THEN d[name] ELSE <<>>
EmptyDir == [x \in {} |-> <<>>]

\* merge_fastq over the fastq files of temp_out: each is appended to its
\* destination.
RECURSIVE merge_fastqs(_, _, _)
merge_fastqs(kit, sources, dests) ==
  IF sources = <<>> THEN dests
  ELSE LET destination_filename == get_destination_filename(kit, Head(sources).path)
       IN merge_fastqs(kit, Tail(sources),
            WriteFile(dests, destination_filename,
                      ReadFile(dests, destination_filename) \o Head(sources).lines))

\* shutil.copy of each log of temp_out into guppy_logs, under its own name.
RECURSIVE copy_logs(_, _)
copy_logs(logs, dir) ==
  IF logs = <<>> THEN dir
  ELSE copy_logs(Tail(logs), WriteFile(dir, Head(logs).name, Head(logs).content))

\* get_timestamp: the timestamp in the name of the last log copied, else now.
get_timestamp(logs, now) ==
  IF logs # <<>> /\ logs[Len(logs)].name[2] \in Timestamps
  THEN logs[Len(logs)].name[2]
  ELSE now

\* shutil.copyfile of each telemetry file to sequencing_telemetry-<ts>.js.
RECURSIVE copy_telemetry(_, _, _)
copy_telemetry(files, timestamp, dir) ==
  IF files = <<>> THEN dir
  ELSE copy_telemetry(Tail(files), timestamp,
         WriteFile(dir, <<"sequencing_telemetry-", timestamp, ".js">>, Head(files)))

\* ------------------------------------------------------------- statistics

RECURSIVE SumSeq(_)
SumSeq(s) == IF s = <<>> THEN 0 ELSE Head(s) + SumSeq(Tail(s))

\* sorted(xs, reverse=True) for integers.
SortedDesc(s) ==
  LET Before(i) == {j \in DOMAIN s : s[j] > s[i] \/ (s[j] = s[i] /\ j < i)}
  IN [k \in 1 .. Len(s) |->
        s[CHOOSE i \in DOMAIN s : Cardinality(Before(i)) = k - 1]]

\* The loop of get_n50 with > in place of >=.
RECURSIVE n50_loop_strict(_, _, _)
n50_loop_strict(lengths, bases_so_far, total_bases) ==
  IF lengths = <<>> THEN 0
  ELSE IF 2 * (bases_so_far + Head(lengths)) > total_bases THEN Head(lengths)
  ELSE n50_loop_strict(Tail(lengths), bases_so_far + Head(lengths), total_bases)

\* The for loop of get_n50 over the lengths left, given the bases counted so
\* far.  bases_so_far >= total_bases * 0.5 is exact in doubles for totals
\* below 2^53, and is compared here doubled.
RECURSIVE n50_loop(_, _, _)
n50_loop(lengths, bases_so_far, total_bases) ==
  IF lengths = <<>> THEN 0
  ELSE IF 2 * (bases_so_far + Head(lengths)) >= total_bases THEN Head(lengths)
  ELSE n50_loop(Tail(lengths), bases_so_far + Head(lengths), total_bases)

get_n50(sequence_lengths) ==
  n50_loop(SortedDesc(sequence_lengths), 0, SumSeq(sequence_lengths))

\* read_sequencing_summary: the lines that do not start with 'filename'.
NotHeaderLine(line) == ~StartsWithFilename(line)
read_sequencing_summary(text) == SelectSeq(text, NotHeaderLine)

\* The first line of the summary names the columns asked for.
HasHeader(text) == text # <<>> /\ text[1] = HeaderRow

\* get_run_start_time, in seconds after the start of run1: the
\* exp_start_time found in the fast5 files of the run.
RunStartTime(run_id) == IF run_id = "run1" THEN 0 ELSE 60

SetMin(S) == CHOOSE x \in S : \A y \in S : x <= y
SetMax(S) == CHOOSE x \in S : \A y \in S : y <= x

\* read_time of each line of data, in seconds (the code divides by 60.0 and
\* compares with whole minutes; the comparisons below multiply instead).
ReadTimes(data) ==
  LET earliest_start_time == SetMin({RunStartTime(data[i].run_id) : i \in DOMAIN data})
  IN [i \in DOMAIN data |->
        RunStartTime(data[i].run_id) + data[i].start_time - earliest_start_time]

\* A formatted median is written <<"median">>, a blank cell <<>>.
MedianCell(window_data) == IF Len(window_data) > 0 THEN <<"median">> ELSE <<>>

\* The while loop of translocation_speed_summary from window_start on.
RECURSIVE WindowRows(_, _, _, _)
WindowRows(read_times, max_time, window_start, time_window) ==
  IF ~(window_start * 60 < max_time) THEN <<>>
  ELSE LET window_end == window_start + time_window
           InWindow(x) == window_start * 60 <= x /\ x < window_end * 60
           window_data == SelectSeq(read_times, InWindow)
       IN <<[window_start |-> window_start, window_end |-> window_end,
             window_data |-> window_data,
             median_speed |-> MedianCell(window_data),
             median_qscore |-> MedianCell(window_data)]>>
          \o WindowRows(read_times, max_time, window_end, time_window)

\* The lines translocation_speed_summary writes below the header.
translocation_speed_summary(data, time_window) ==
  LET read_times == ReadTimes(data)
      max_time == SetMax({0} \cup Range(read_times))
  IN WindowRows(read_times, max_time, 0, time_window)

\* barcode_names of barcode_distribution_summary.
BarcodeNames(kit) ==
  [i \in 1 .. (kit.last - kit.first + 1) |-> BarcodeName(kit.first + i - 1)]
    \o <<Unclassified>>

LengthsOf(data, name) ==
  LET Named(line) == line.barcode = name
      lines == SelectSeq(data, Named)
  IN [i \in DOMAIN lines |-> lines[i].sequence_length]

\* bases[name] with += 1 in place of += length.
BasesOf_counts_reads(data, name) == Len(LengthsOf(data, name))

\* bases[name] and reads[name] after the loop over the data.
BasesOf(data, name) == SumSeq(LengthsOf(data, name))
ReadsOf(data, name) == Len(LengthsOf(data, name))

\* barcode_distribution_summary with the N50 of every category taken over
\* all the lengths of the summary.
barcode_distribution_summary_overall_n50(data, kit) ==
  LET barcode_names == BarcodeNames(kit)
  IN [i \in DOMAIN barcode_names |->
        [barcode |-> barcode_names[i],
         reads |-> ReadsOf(data, barcode_names[i]),
         bases |-> BasesOf(data, barcode_names[i]),
         N50 |-> get_n50([r \in DOMAIN data |-> data[r].sequence_length])]]

\* The lines barcode_distribution_summary writes below the header
\* (bases_percent, a formatted quotient, is left out).
barcode_distribution_summary(data, kit) ==
  LET barcode_names == BarcodeNames(kit)
  IN [i \in DOMAIN barcode_names |->
        [barcode |-> barcode_names[i],
         reads |-> ReadsOf(data, barcode_names[i]),
         bases |-> BasesOf(data, barcode_names[i]),
         N50 |-> get_n50(LengthsOf(data, barcode_names[i]))]]

\* What overall_summary prints.
overall_summary(data) ==
  LET sequence_lengths == [i \in DOMAIN data |-> data[i].sequence_length]
  IN [num_reads |-> Len(sequence_lengths),
      total_bases |-> SumSeq(sequence_lengths),
      n50 |-> get_n50(sequence_lengths)]

NoTotals == [num_reads |-> 0, total_bases |-> 0, n50 |-> 0]

\* ---------------------------------------------------------------- actions

Running == {"loop", "scan", "sleep", "stage", "guppy", "merge_logs", "merge_telemetry",
            "merge_summary", "merge_fastq", "ledger", "trans_speed", "barcode_dist",
            "overall"}

\* Positions inside the with block of basecall_reads.
InWith == {"stage", "guppy", "merge_logs", "merge_telemetry", "merge_summary",
           "merge_fastq"}

\* A temporary directory made with mkdtemp: nothing removes it.
Cleanup_skipped == UNCHANGED tmpVars

\* TemporaryDirectory.__exit__: the directory and all it holds are removed.
Cleanup ==
  /\ temp_dir' = FALSE
  /\ temp_in' = <<>>
  /\ temp_out' = NoFragment

\* An exception no handler of main catches ends the process.
Raise(exception) ==
  /\ pc' = "crashed"
  /\ error' = exception

\* A fast5 file appears under in_dir.  A file that appears at any other
\* moment is first seen by the next glob, so arrivals are taken just before it.
Arrive(U) ==
  /\ pc = "scan"
  /\ \E f \in U \ tree : tree' = tree \cup {f}
  /\ UNCHANGED <<argVars, ledgerVars, ctlVars, tmpVars, outVars, repVars, histVars, fnVars>>

\* if minutes_since_last_read >= args.stop_time
StopCondition(minutes, stop) == DblGE(minutes, IntToDbl(stop))

\* main, lines 106-108: the stop message and the break.
Stop ==
  /\ pc = "loop"
  /\ StopCondition(minutes_since_last_read, stop_time)
  /\ pc' = "stopped"
  /\ UNCHANGED <<argVars, tree, ledgerVars, error, minutes_since_last_read, new_fast5s,
                 all_fast5s, tmpVars, outVars, repVars, histVars, fnVars>>

\* The loop with the stop check after the scan: the scan starts whatever the
\* idle time.
Continue_unchecked ==
  /\ pc = "loop"
  /\ pc' = "scan"
  /\ UNCHANGED <<argVars, tree, ledgerVars, error, minutes_since_last_read, new_fast5s,
                 all_fast5s, tmpVars, outVars, repVars, histVars, fnVars>>

\* main, line 106 when the condition is false: on to the scan.
Continue ==
  /\ pc = "loop"
  /\ ~StopCondition(minutes_since_last_read, stop_time)
  /\ pc' = "scan"
  /\ UNCHANGED <<argVars, tree, ledgerVars, error, minutes_since_last_read, new_fast5s,
                 all_fast5s, tmpVars, outVars, repVars, histVars, fnVars>>

\* main, lines 110-111: check_for_reads and the test of its result.  An
\* unreadable ledger makes open() raise.  With work found, basecall_reads
\* starts: the TemporaryDirectory is created and temp_in made.
CheckForReads ==
  /\ pc = "scan"
  /\ IF ledger_mode = "unreadable"
     THEN /\ Raise("PermissionError")
          /\ UNCHANGED <<new_fast5s, all_fast5s, tmpVars>>
     ELSE LET r == check_for_reads(batch_size, tree, ledger_mode, ledger)
          IN /\ new_fast5s' = r.new
             /\ all_fast5s' = r.all
             /\ error' = error
             /\ IF r.new # <<>>
                THEN /\ invocations < MaxInvocations
                     /\ pc' = "stage"
                     /\ temp_dir' = TRUE
                     /\ temp_in' = <<>>
                     /\ temp_out' = NoFragment
                ELSE /\ pc' = "sleep"
                     /\ UNCHANGED tmpVars
  /\ UNCHANGED <<argVars, tree, ledgerVars, minutes_since_last_read, outVars, repVars,
                 histVars, fnVars>>

\* main, lines 117-121: no new reads.
Sleep ==
  /\ pc = "sleep"
  /\ minutes_since_last_read' = DblAdd(minutes_since_last_read, TickMinutes)
  /\ idle_ticks' = idle_ticks + 1
  /\ pc' = "loop"
  /\ UNCHANGED <<argVars, tree, ledgerVars, error, new_fast5s, all_fast5s, tmpVars,
                 outVars, repVars, invocations, submitted, merged, fnVars>>

\* copy_reads_to_temp_in: one turn of its loop; after the last, Guppy is next.
CopyRead ==
  /\ pc = "stage"
  /\ Len(temp_in) < Len(new_fast5s)
  /\ temp_in' = copy_read(temp_in, new_fast5s[Len(temp_in) + 1])
  /\ pc' = IF Len(temp_in') = Len(new_fast5s) THEN "guppy" ELSE "stage"
  /\ UNCHANGED <<argVars, tree, ledgerVars, error, minutes_since_last_read, new_fast5s,
                 all_fast5s, temp_dir, temp_out, outVars, repVars, histVars, fnVars>>

\* basecall_reads with add_to_already_basecalled called before merge_results.
ExecuteWithOutput_then_ledger(Produced) ==
  /\ pc = "guppy"
  /\ invocations' = invocations + 1
  /\ submitted' = Append(submitted, [i \in DOMAIN temp_in |-> temp_in[i].src])
  /\ \E fr \in Produced : temp_out' = fr
  /\ ledger' = ledger \o LedgerText(new_fast5s)
  /\ ledger_mode' = IF ledger_mode = "absent" THEN "readable" ELSE ledger_mode
  /\ pc' = "merge_logs"
  /\ UNCHANGED <<argVars, tree, error, minutes_since_last_read, new_fast5s,
                 all_fast5s, temp_dir, temp_in, outVars, repVars, idle_ticks, merged, fnVars>>

\* execute_with_output, return code 0: Guppy has filled temp_out with one of
\* the fragments it may produce.
ExecuteWithOutput(Produced) ==
  /\ pc = "guppy"
  /\ invocations' = invocations + 1
  /\ submitted' = Append(submitted, [i \in DOMAIN temp_in |-> temp_in[i].src])
  /\ \E fr \in Produced : temp_out' = fr
  /\ pc' = "merge_logs"
  /\ UNCHANGED <<argVars, tree, ledgerVars, error, minutes_since_last_read, new_fast5s,
                 all_fast5s, temp_dir, temp_in, outVars, repVars, idle_ticks, merged, fnVars>>

\* A failure of Guppy with add_to_already_basecalled in a finally clause: the
\* batch is written to the ledger all the same.
GuppyFails_commits ==
  /\ pc = "guppy"
  /\ invocations' = invocations + 1
  /\ submitted' = Append(submitted, [i \in DOMAIN temp_in |-> temp_in[i].src])
  /\ Cleanup
  /\ Raise("CalledProcessError")
  /\ ledger' = ledger \o LedgerText(new_fast5s)
  /\ ledger_mode' = IF ledger_mode = "absent" THEN "readable" ELSE ledger_mode
  /\ UNCHANGED <<argVars, tree, minutes_since_last_read, new_fast5s,
                 all_fast5s, outVars, repVars, idle_ticks, merged, fnVars>>

\* execute_with_output, return code not 0: CalledProcessError leaves the with
\* block of basecall_reads and main.
GuppyFails ==
  /\ pc = "guppy"
  /\ invocations' = invocations + 1
  /\ submitted' = Append(submitted, [i \in DOMAIN temp_in |-> temp_in[i].src])
  /\ Cleanup
  /\ Raise("CalledProcessError")
  /\ UNCHANGED <<argVars, tree, ledgerVars, minutes_since_last_read, new_fast5s,
                 all_fast5s, outVars, repVars, idle_ticks, merged, fnVars>>

\* merge_results, lines 546-550.
MergeLogs ==
  /\ pc = "merge_logs"
  /\ guppy_logs' = copy_logs(temp_out.logs, guppy_logs)
  /\ pc' = "merge_telemetry"
  /\ UNCHANGED <<argVars, tree, ledgerVars, error, minutes_since_last_read, new_fast5s,
                 all_fast5s, tmpVars, summary_exists, summary, fastq, guppy_telemetry,
                 repVars, histVars, fnVars>>

\* merge_results, lines 552-556.
MergeTelemetry ==
  /\ pc = "merge_telemetry"
  /\ \E now \in Timestamps :
       guppy_telemetry' =
         copy_telemetry(temp_out.telemetry, get_timestamp(temp_out.logs, now),
                        guppy_telemetry)
  /\ pc' = "merge_summary"
  /\ UNCHANGED <<argVars, tree, ledgerVars, error, minutes_since_last_read, new_fast5s,
                 all_fast5s, tmpVars, summary_exists, summary, fastq, guppy_logs,
                 repVars, histVars, fnVars>>

\* merge_results, lines 558-560.
MergeSummary ==
  /\ pc = "merge_summary"
  /\ summary' = merge_summaries(temp_out.summaries, summary_exists, summary)
  /\ summary_exists' = (summary_exists \/ temp_out.summaries # <<>>)
  /\ pc' = "merge_fastq"
  /\ UNCHANGED <<argVars, tree, ledgerVars, error, minutes_since_last_read, new_fast5s,
                 all_fast5s, tmpVars, fastq, guppy_logs, guppy_telemetry, repVars,
                 histVars, fnVars>>

\* merge_results, lines 562-564, and the end of the with block.
MergeFastq ==
  /\ pc = "merge_fastq"
  /\ fastq' = merge_fastqs(barcodes, temp_out.fastqs, fastq)
  /\ merged' = Append(merged, invocations)
  /\ Cleanup
  /\ pc' = "ledger"
  /\ UNCHANGED <<argVars, tree, ledgerVars, error, minutes_since_last_read, new_fast5s,
                 all_fast5s, summary_exists, summary, guppy_logs, guppy_telemetry,
                 repVars, invocations, idle_ticks, submitted, fnVars>>

\* add_to_already_basecalled with the file opened 'wt' in place of 'at'.
AddToAlreadyBasecalled_rewrites ==
  /\ pc = "ledger"
  /\ ledger' = LedgerText(new_fast5s)
  /\ ledger_mode' = IF ledger_mode = "absent" THEN "readable" ELSE ledger_mode
  /\ pc' = "trans_speed"
  /\ UNCHANGED <<argVars, tree, error, minutes_since_last_read, new_fast5s, all_fast5s,
                 tmpVars, outVars, repVars, histVars, fnVars>>

\* basecall_reads, line 203.
AddToAlreadyBasecalled ==
  /\ pc = "ledger"
  /\ ledger' = ledger \o LedgerText(new_fast5s)
  /\ ledger_mode' = IF ledger_mode = "absent" THEN "readable" ELSE ledger_mode
  /\ pc' = "trans_speed"
  /\ UNCHANGED <<argVars, tree, error, minutes_since_last_read, new_fast5s, all_fast5s,
                 tmpVars, outVars, repVars, histVars, fnVars>>

\* summary_info, line 224: translocation_speed_summary.  The summary must
\* exist and start with the header (headers.index), and min() needs a run.
TranslocationSpeedSummary ==
  /\ pc = "trans_speed"
  /\ IF ~summary_exists THEN
       Raise("FileNotFoundError") /\ UNCHANGED translocation_speed
     ELSE IF ~HasHeader(summary) \/ read_sequencing_summary(summary) = <<>> THEN
       Raise("ValueError") /\ UNCHANGED translocation_speed
     ELSE
       /\ translocation_speed' =
            translocation_speed_summary(read_sequencing_summary(summary), trans_window)
       /\ pc' = IF barcodes.kind # "none" THEN "barcode_dist" ELSE "overall"
       /\ error' = error
  /\ UNCHANGED <<argVars, tree, ledgerVars, minutes_since_last_read, new_fast5s,
                 all_fast5s, tmpVars, outVars, barcode_distribution, totals, histVars,
                 fnVars>>

\* summary_info, lines 225-226: barcode_distribution_summary.  A barcode that
\* is not among barcode_names is a KeyError; no bases at all, a
\* ZeroDivisionError after the header of the report is written.
BarcodeDistributionSummary ==
  /\ pc = "barcode_dist"
  /\ LET barcode_data == read_sequencing_summary(summary)
         names == Range(BarcodeNames(barcodes))
     IN IF \E i \in DOMAIN barcode_data : barcode_data[i].barcode \notin names THEN
          Raise("KeyError") /\ UNCHANGED barcode_distribution
        ELSE IF SumSeq([i \in DOMAIN barcode_data |-> barcode_data[i].sequence_length]) = 0
        THEN
          Raise("ZeroDivisionError") /\ barcode_distribution' = <<>>
        ELSE
          /\ barcode_distribution' = barcode_distribution_summary(barcode_data, barcodes)
          /\ pc' = "overall"
          /\ error' = error
  /\ UNCHANGED <<argVars, tree, ledgerVars, minutes_since_last_read, new_fast5s,
                 all_fast5s, tmpVars, outVars, translocation_speed, totals, histVars,
                 fnVars>>

\* summary_info, line 227: overall_summary; then main, line 114.
OverallSummary ==
  /\ pc = "overall"
  /\ totals' = overall_summary(read_sequencing_summary(summary))
  /\ minutes_since_last_read' = DblZero
  /\ idle_ticks' = 0
  /\ pc' = "loop"
  /\ UNCHANGED <<argVars, tree, ledgerVars, error, new_fast5s, all_fast5s, tmpVars,
                 outVars, translocation_speed, barcode_distribution, invocations, submitted,
                 merged, fnVars>>

\* An except clause that writes the last batch to the ledger before main
\* returns.
Interrupt_commits ==
  /\ pc \in Running
  /\ IF pc \in InWith THEN Cleanup ELSE UNCHANGED tmpVars
  /\ pc' = "interrupted"
  /\ ledger' = ledger \o LedgerText(new_fast5s)
  /\ ledger_mode' = ledger_mode
  /\ UNCHANGED <<argVars, tree, error, minutes_since_last_read, new_fast5s,
                 all_fast5s, outVars, repVars, histVars, fnVars>>

\* Ctrl-C: KeyboardInterrupt leaves the with block, if inside one, and is
\* caught by main (lines 123-124), which returns.
Interrupt ==
  /\ pc \in Running
  /\ IF pc \in InWith THEN Cleanup ELSE UNCHANGED tmpVars
  /\ pc' = "interrupted"
  /\ UNCHANGED <<argVars, tree, ledgerVars, error, minutes_since_last_read, new_fast5s,
                 all_fast5s, outVars, repVars, histVars, fnVars>>

\* A file operation fails (a source that cannot be copied, a full disk, a
\* fast5 that h5py cannot open): OSError leaves the with block, if inside
\* one, and main.
OSErrorRaised ==
  /\ pc \in {"stage", "merge_logs", "merge_telemetry", "merge_summary", "merge_fastq",
             "ledger", "trans_speed"}
  /\ IF pc \in InWith THEN Cleanup ELSE UNCHANGED tmpVars
  /\ Raise("OSError")
  /\ UNCHANGED <<argVars, tree, ledgerVars, minutes_since_last_read, new_fast5s,
                 all_fast5s, outVars, repVars, histVars, fnVars>>

\* A call of get_n50 on its own.
CallN50 ==
  /\ pc = "n50"
  /\ n50_out' = get_n50(n50_in)
  /\ pc' = "returned"
  /\ UNCHANGED <<argVars, tree, ledgerVars, error, minutes_since_last_read, new_fast5s,
                 all_fast5s, tmpVars, outVars, repVars, histVars, n50_in>>

\* --------------------------------------------------------- specifications

\* What an earlier run may have left in out_dir: nothing; a ledger and a
\* summary; a ledger that names a file twice; a ledger that cannot be read.
SummaryOf(names) ==
  <<HeaderRow>> \o [i \in DOMAIN names |-> DataRow(names[i], "run1", 30, 1, BarcodeName(1))]
Prior(mode, names) ==
  [ledger_mode |-> mode,
   ledger |-> LedgerText([i \in DOMAIN names |-> Fast5("d1", names[i])]),
   summary_exists |-> names # <<>>,
   summary |-> IF names # <<>> THEN SummaryOf(names) ELSE <<>>]
PriorRuns ==
  {Prior("absent", <<>>), Prior("readable", <<NameA>>),
   Prior("readable", <<NameB, NameB>>), Prior("unreadable", <<NameA>>)}

\* The state when main enters its loop, but for the arguments, the input
\* tree and what an earlier run left.
InitLocals ==
  /\ error = "none"
  /\ minutes_since_last_read = DblZero
  /\ new_fast5s = <<>>
  /\ all_fast5s = {}
  /\ temp_dir = FALSE
  /\ temp_in = <<>>
  /\ temp_out = NoFragment
  /\ fastq = EmptyDir
  /\ guppy_logs = EmptyDir
  /\ guppy_telemetry = EmptyDir
  /\ translocation_speed = <<>>
  /\ barcode_distribution = <<>>
  /\ totals = NoTotals
  /\ invocations = 0
  /\ idle_ticks = 0
  /\ n50_in = <<>>
  /\ n50_out = -1
  /\ submitted = <<>>
  /\ merged = <<>>

InitPrior(Runs) ==
  \E p \in Runs :
    /\ ledger_mode = p.ledger_mode
    /\ ledger = p.ledger
    /\ summary_exists = p.summary_exists
    /\ summary = p.summary

\* The loop, with files arriving and Guppy producing one plain fragment per
\* batch.
Init ==
  /\ batch_size \in 1 .. MaxBatch
  /\ stop_time = 1
  /\ barcodes = Native1to12
  /\ trans_window = 1
  /\ tree = {}
  /\ pc = "loop"
  /\ InitPrior(PriorRuns)
  /\ InitLocals

LoopFragments ==
  Fragments(temp_in, invocations + 1, {<<"t1">>}, {1}, {BarcodeName(1)}, {1}, {30}, {1})

Processing ==
  \/ CopyRead
  \/ GuppyFails
  \/ MergeLogs
  \/ MergeTelemetry
  \/ MergeSummary
  \/ MergeFastq
  \/ AddToAlreadyBasecalled
  \/ TranslocationSpeedSummary
  \/ BarcodeDistributionSummary
  \/ OverallSummary
  \/ OSErrorRaised

Next ==
  \/ Arrive(Universe)
  \/ Stop
  \/ Continue
  \/ CheckForReads
  \/ Sleep
  \/ ExecuteWithOutput(LoopFragments)
  \/ Processing
  \/ Interrupt

Spec == Init /\ [][Next]_vars

\* The loop on a tree of files with pairwise distinct names, one of which
\* starts with the label of the summary's first column, after no earlier
\* run or after one that left b.fast5 in the ledger and the summary.
RecordedUniverse ==
  {Fast5("d1", NameA), Fast5("d1", NameFilenameA), Fast5("d2", NameB)}

InitRecorded ==
  /\ batch_size \in 1 .. MaxBatch
  /\ stop_time = 1
  /\ barcodes = Native1to12
  /\ trans_window = 1
  /\ tree = {}
  /\ pc = "loop"
  /\ InitPrior({Prior("absent", <<>>), Prior("readable", <<NameB>>)})
  /\ InitLocals

NextRecorded ==
  \/ Arrive(RecordedUniverse)
  \/ Stop
  \/ Continue
  \/ CheckForReads
  \/ Sleep
  \/ ExecuteWithOutput(LoopFragments)
  \/ Processing
  \/ Interrupt

SpecRecorded == InitRecorded /\ [][NextRecorded]_vars

\* The loop on a tree that is complete when main starts: files with pairwise
\* distinct base names, no arrival, no failing step and no interrupt, after
\* no earlier run or after one that left b.fast5 in the ledger.  The loop is
\* one thread of a running process, which takes its next step whenever it
\* has one: weak fairness of the next-state relation.
FairUniverse ==
  {Fast5("d1", NameA), Fast5("d1", NameSpA), Fast5("d2", NameB)}

FairPriors == {Prior("absent", <<>>), Prior("readable", <<NameB>>)}

InitFair ==
  /\ batch_size \in 1 .. MaxBatch
  /\ stop_time = 1
  /\ barcodes = Native1to12
  /\ trans_window = 1
  /\ tree \in SUBSET FairUniverse
  /\ pc = "loop"
  /\ InitPrior(FairPriors)
  /\ InitLocals

NextFair ==
  \/ Stop
  \/ Continue
  \/ CheckForReads
  \/ Sleep
  \/ CopyRead
  \/ ExecuteWithOutput(LoopFragments)
  \/ MergeLogs
  \/ MergeTelemetry
  \/ MergeSummary
  \/ MergeFastq
  \/ AddToAlreadyBasecalled
  \/ TranslocationSpeedSummary
  \/ BarcodeDistributionSummary
  \/ OverallSummary

SpecFair == InitFair /\ [][NextFair]_vars /\ WF_vars(NextFair)

\* merge_results at its summary loop, on every fragment of one or two
\* summary files of at most MaxRows reads each, the reads of files named
\* a.fast5 and filenamea.fast5, and a destination that is missing or holds
\* an earlier batch.
SummaryRows ==
  {DataRow(n, "run1", 30, 1, Unclassified) : n \in {NameA, NameFilenameA}}

SummaryFiles == {<<HeaderRow>> \o rows : rows \in SeqsUpTo(SummaryRows, MaxRows)}

InitSummary ==
  /\ batch_size = 1
  /\ stop_time = 1
  /\ barcodes = Native1to12
  /\ trans_window = 1
  /\ tree = {}
  /\ pc = "merge_summary"
  /\ InitPrior({Prior("absent", <<>>), Prior("readable", <<NameB>>)})
  /\ InitLocals!1 /\ InitLocals!2 /\ InitLocals!3 /\ InitLocals!4
  /\ temp_dir = TRUE
  /\ temp_in = <<>>
  /\ \E files \in SeqsUpTo(SummaryFiles, 2) \ {<<>>} :
       temp_out = Fragment(<<>>, <<>>, files, <<>>)
  /\ InitLocals!8 /\ InitLocals!9 /\ InitLocals!10 /\ InitLocals!11 /\ InitLocals!12
  /\ InitLocals!13 /\ InitLocals!14 /\ InitLocals!15 /\ InitLocals!16 /\ InitLocals!17
  /\ InitLocals!18 /\ InitLocals!19

NextSummary == MergeSummary

SpecSummary == InitSummary /\ [][NextSummary]_vars

\* merge_results at its fastq loop, on every fragment of one or two fastq
\* files: below barcode01, below unclassified, below a directory whose name
\* holds one digit only, and below barcode01 in a temporary directory that
\* lies under a directory named barcode02; with and without barcoding; into
\* an out_dir that is empty or holds reads of an earlier batch.
FastqPaths ==
  {<<"tmp", "/">> \o BarcodeName(1) \o <<"/", "fastq_runid">>,
   <<"tmp", "/">> \o Unclassified \o <<"/", "fastq_runid">>,
   <<"tmp", "/", "barcode", "1", "/", "fastq_runid">>,
   BarcodeName(2) \o <<"/", "tmp", "/">> \o BarcodeName(1) \o <<"/", "fastq_runid">>}

FastqLines ==
  {<<<<NameA, Unclassified>>>>,
   <<<<NameB, Unclassified>>, <<NameA, Unclassified>>>>}

FastqFiles == {[path |-> p, lines |-> l] : p \in FastqPaths, l \in FastqLines}

EarlierFastq ==
  LET old == <<<<NameSpA, Unclassified>>>>
  IN WriteFile(WriteFile(EmptyDir, BarcodeName(1) \o <<".fastq">>, old),
               <<"reads", ".fastq">>, old)

InitFastq ==
  /\ batch_size = 1
  /\ stop_time = 1
  /\ barcodes \in {Native1to12, NoBarcodes}
  /\ trans_window = 1
  /\ tree = {}
  /\ pc = "merge_fastq"
  /\ InitPrior({Prior("readable", <<NameB>>)})
  /\ InitLocals!1 /\ InitLocals!2 /\ InitLocals!3 /\ InitLocals!4
  /\ temp_dir = TRUE
  /\ temp_in = <<>>
  /\ \E files \in SeqsUpTo(FastqFiles, 2) \ {<<>>} :
       temp_out = Fragment(<<>>, <<>>, <<>>, files)
  /\ fastq \in {EmptyDir, EarlierFastq}
  /\ InitLocals!9 /\ InitLocals!10 /\ InitLocals!11 /\ InitLocals!12
  /\ InitLocals!13 /\ InitLocals!14 /\ InitLocals!15 /\ InitLocals!16 /\ InitLocals!17
  /\ InitLocals!18 /\ InitLocals!19

NextFastq == MergeFastq

SpecFastq == InitFastq /\ [][NextFastq]_vars

\* summary_info from barcode_distribution_summary on, on every summary of at
\* most MaxDistRows reads of 50, 100 or 200 bases, with barcode01, barcode02
\* or none, under a kit of barcode 01 alone and under native_1-12.
Kit1to1 == Kit("native", 1, 1)

DistRows ==
  {DataRow(NameA, "run1", 30, ln, bc) :
     ln \in {50, 100, 200}, bc \in {BarcodeName(1), BarcodeName(2), Unclassified}}

InitDist ==
  /\ batch_size = 1
  /\ stop_time = 1
  /\ barcodes \in {Kit1to1, Native1to12}
  /\ trans_window = 1
  /\ tree = {}
  /\ pc = "barcode_dist"
  /\ ledger_mode = "readable"
  /\ ledger = <<>>
  /\ summary_exists = TRUE
  /\ \E rows \in SeqsUpTo(DistRows, MaxDistRows) : summary = <<HeaderRow>> \o rows
  /\ InitLocals

NextDist ==
  \/ BarcodeDistributionSummary
  \/ OverallSummary

SpecDist == InitDist /\ [][NextDist]_vars

\* The loop under every stop threshold up to MaxStop.
InitStop ==
  /\ batch_size \in 1 .. MaxBatch
  /\ stop_time \in 1 .. MaxStop
  /\ barcodes = Native1to12
  /\ trans_window = 1
  /\ tree = {}
  /\ pc = "loop"
  /\ InitPrior(PriorRuns)
  /\ InitLocals

SpecStop == InitStop /\ [][Next]_vars

\* The loop started on an out_dir whose ledger names no file twice.
NoDuplicates(s) == \A i, j \in DOMAIN s : s[i] = s[j] => i = j

InitNoDup ==
  /\ Init
  /\ NoDuplicates(FileLines(ledger))

SpecNoDup == InitNoDup /\ [][Next]_vars

\* The merger, with Guppy producing fragments of every shape: no log or a log
\* with a timestamp, one or two telemetry files, the summary in one file or
\* two, reads with and without a barcode.  The input files are all there
\* when the loop starts.
MergeUniverse == {Fast5("d1", NameA), Fast5("d2", NameB)}

InitMerge ==
  /\ batch_size \in 1 .. MaxBatch
  /\ stop_time = 1
  /\ barcodes = Native1to12
  /\ trans_window = 1
  /\ tree = MergeUniverse
  /\ pc = "loop"
  /\ InitPrior({Prior("absent", <<>>), Prior("readable", <<NameSpA>>)})
  /\ InitLocals

MergeFragments ==
  Fragments(temp_in, invocations + 1, {<<>>, <<"t1">>}, {1, 2},
            {BarcodeName(1), Unclassified}, {1}, {30}, {1, 2})

NextMerge ==
  \/ Stop
  \/ Continue
  \/ CheckForReads
  \/ Sleep
  \/ ExecuteWithOutput(MergeFragments)
  \/ Processing
  \/ Interrupt

SpecMerge == InitMerge /\ [][NextMerge]_vars

\* The idle loop: no file ever appears under in_dir.
InitIdle ==
  /\ batch_size \in 1 .. MaxBatch
  /\ stop_time \in 1 .. MaxStop
  /\ barcodes = Native1to12
  /\ trans_window = 1
  /\ tree = {}
  /\ pc = "loop"
  /\ InitPrior(PriorRuns)
  /\ InitLocals

NextIdle ==
  \/ Stop
  \/ Continue
  \/ CheckForReads
  \/ Sleep
  \/ Interrupt

SpecIdle == InitIdle /\ [][NextIdle]_vars

\* get_n50 on every list of at most MaxReads lengths in 1 .. MaxLength.
InitN50 ==
  /\ batch_size = 1
  /\ stop_time = 1
  /\ barcodes = NoBarcodes
  /\ trans_window = 1
  /\ tree = {}
  /\ pc = "n50"
  /\ InitPrior({Prior("absent", <<>>)})
  /\ InitLocals!1 /\ InitLocals!2 /\ InitLocals!3 /\ InitLocals!4 /\ InitLocals!5
  /\ InitLocals!6 /\ InitLocals!7 /\ InitLocals!8 /\ InitLocals!9 /\ InitLocals!10
  /\ InitLocals!11 /\ InitLocals!12 /\ InitLocals!13 /\ InitLocals!14 /\ InitLocals!15
  /\ n50_in \in SeqsUpTo(1 .. MaxLength, MaxReads)
  /\ n50_out = -1
  /\ submitted = <<>>
  /\ merged = <<>>

NextN50 == CallN50

SpecN50 == InitN50 /\ [][NextN50]_vars

\* The statistics pass of summary_info on every summary of at most MaxRows
\* reads: start times on and off the window boundaries, barcodes of the kit,
\* of another kit and none.
StatRows ==
  {DataRow(NameA, "run1", st, ln, bc) :
     st \in {0, 60, 90}, ln \in {1, 2},
     bc \in {BarcodeName(1), BarcodeName(13), Unclassified}}

InitStats ==
  /\ batch_size = 1
  /\ stop_time = 1
  /\ barcodes \in {Native1to12, Native13to24, NoBarcodes}
  /\ trans_window \in 1 .. MaxWindow
  /\ tree = {}
  /\ pc = "trans_speed"
  /\ ledger_mode = "readable"
  /\ ledger = <<>>
  /\ summary_exists = TRUE
  /\ \E rows \in SeqsUpTo(StatRows, MaxRows) : summary = <<HeaderRow>> \o rows
  /\ InitLocals

NextStats ==
  \/ TranslocationSpeedSummary
  \/ BarcodeDistributionSummary
  \/ OverallSummary

SpecStats == InitStats /\ [][NextStats]_vars

\* ----------------------------------------------------------------- claims

IsPrefix(s, t) == Len(s) <= Len(t) /\ SubSeq(t, 1, Len(s)) = s

\* C1: no batch returned by check_for_reads contains a file whose base name
\* is written in the ledger at the time of the scan.  (While the batch is
\* staged the ledger is the one the scan read.)
C1_BatchExcludesLedgered ==
  pc = "stage" =>
    \A i \in DOMAIN new_fast5s : new_fast5s[i].name \notin LedgerNames(ledger)

\* A batch holds a file whose base name is a line of the ledger.
C1_LedgeredFileSelected ==
  /\ pc = "stage"
  /\ \E i \in DOMAIN new_fast5s : new_fast5s[i].name \in LedgerNames(ledger)

\* C2: when Guppy exits non-zero there is no partial commit and the loop
\* ends: from the start of a batch up to Guppy's exit no step changes the
\* ledger or a consolidated output, and no step is taken after the failure.
C2_NoPartialCommit ==
  [][/\ pc \in {"stage", "guppy"} =>
          /\ ledger' = ledger
          /\ ledger_mode' = ledger_mode
          /\ outVars' = outVars
     /\ pc # "crashed"]_vars

\* Guppy fails on the second batch, after the first was merged.
C2_SecondBatchFails ==
  /\ pc = "crashed"
  /\ error = "CalledProcessError"
  /\ invocations = 2
  /\ summary # <<>>

\* The number of header rows in a summary.
HeaderCount(text) ==
  LET IsHeader(line) == line = HeaderRow
  IN Len(SelectSeq(text, IsHeader))

\* C3: the consolidated summary never holds more than one header row, and
\* holds exactly one once fragments that begin with a header were merged
\* into it, from one batch or from successive batches.
C3_OneHeader ==
  /\ HeaderCount(summary) <= 1
  /\ summary_exists => HeaderCount(summary) = 1

\* The fragments of two successive batches are merged.
C3_TwoBatchesMerged ==
  /\ pc = "ledger"
  /\ invocations = 2
  /\ Len(summary) >= 3
  /\ HeaderCount(summary) = 1

\* C4: the batch returned by check_for_reads is the first batch_size files,
\* in path order, of the files whose base name is not written in the ledger.
\* (Until the batch is processed or the sleep is over, the tree and the
\* ledger are the ones the scan read.)
C4_BatchIsSortedPrefix ==
  pc \in {"stage", "sleep"} =>
    new_fast5s =
      Take(Sorted({f \in tree : f.name \notin LedgerNames(ledger)}), batch_size)

\* A file whose base name is not in the ledger is left out of a batch that
\* has room for it.
C4_UnledgeredFileLeftOut ==
  /\ pc = "stage"
  /\ Len(new_fast5s) < batch_size
  /\ \E f \in tree : f.name \notin LedgerNames(ledger) /\ f \notin Range(new_fast5s)

\* C5: with a stop threshold of 1 minute and no file ever seen, the loop
\* stops after exactly 6 idle ticks of 10 seconds.
C5_StopsAfterSixTicks ==
  (pc = "stopped" /\ stop_time = 1) => idle_ticks = 6

\* The loop stops with a threshold of 1 minute after 7 idle ticks.
C5_StopsAfterSevenTicks ==
  /\ pc = "stopped"
  /\ stop_time = 1
  /\ idle_ticks = 7

\* The sum of the elements of s that are at least x: the running sum of the
\* descending order up to and including the last x.
SumGE(s, x) ==
  LET AtLeast(y) == y >= x
  IN SumSeq(SelectSeq(s, AtLeast))

\* C6: get_n50 returns an element L of its argument such that the elements
\* from the longest down to L sum to at least half the total, and no longer
\* element does; get_n50([]) = 0 and get_n50([x]) = x.
C6_N50 ==
  pc = "returned" =>
    /\ n50_in = <<>> => n50_out = 0
    /\ Len(n50_in) = 1 => n50_out = n50_in[1]
    /\ n50_in # <<>> =>
         /\ n50_out \in Range(n50_in)
         /\ 2 * SumGE(n50_in, n50_out) >= SumSeq(n50_in)
         /\ \A x \in Range(n50_in) :
              x > n50_out => 2 * SumGE(n50_in, x) < SumSeq(n50_in)

\* The longest length is exactly half the total.
C6_HalfReachedAtLongest ==
  /\ pc = "returned"
  /\ n50_in = <<1, 2, 1>>
  /\ n50_out = 2

\* C7: every read of the summary falls into exactly one reported window, the
\* one that starts at floor(minutes / window) * window; the windows are
\* consecutive from 0; a window without reads is reported with blank cells.
C7_WindowPartition ==
  pc \in {"barcode_dist", "overall", "loop"} =>
    LET times == ReadTimes(read_sequencing_summary(summary))
        rows == translocation_speed
    IN /\ \A i \in DOMAIN times :
            LET hit == {k \in DOMAIN rows :
                          /\ rows[k].window_start * 60 <= times[i]
                          /\ times[i] < rows[k].window_end * 60}
            IN /\ Cardinality(hit) = 1
               /\ \A k \in hit :
                    rows[k].window_start =
                      (times[i] \div (60 * trans_window)) * trans_window
       /\ \A k \in DOMAIN rows :
            /\ rows[k].window_start = (k - 1) * trans_window
            /\ rows[k].window_end = k * trans_window
            /\ rows[k].window_data = <<>> =>
                 rows[k].median_speed = <<>> /\ rows[k].median_qscore = <<>>

\* Reads at 0 and 1 minute with one-minute windows: one window is reported.
C7_LastReadInNoWindow ==
  /\ pc = "loop"
  /\ trans_window = 1
  /\ ReadTimes(read_sequencing_summary(summary)) = <<0, 60>>
  /\ Len(translocation_speed) = 1

\* C8: the bases reported for the categories of the kit, unclassified
\* included, sum to the total bases of the overall summary.
C8_CategoryBasesSumToTotal ==
  (pc = "loop" /\ barcodes.kind # "none") =>
    SumSeq([i \in DOMAIN barcode_distribution |-> barcode_distribution[i].bases])
      = totals.total_bases

\* Both reports are written and two categories hold bases.
C8_TwoCategories ==
  /\ pc = "loop"
  /\ barcodes.kind # "none"
  /\ totals.total_bases >= 3
  /\ \E i, j \in DOMAIN barcode_distribution :
       /\ i # j
       /\ barcode_distribution[i].bases > 0
       /\ barcode_distribution[j].bases > 0

\* Every file of directory d is in e with the same content.
FilesKept(d, e) ==
  \A n \in Files(d) : n \in Files(e) /\ e[n] = d[n]

\* C9: every merge is append-only: the summary and every fastq file keep
\* their content as a prefix, and every file of guppy_logs and
\* guppy_telemetry stays, with its content.
C9_AppendOnly ==
  [][/\ IsPrefix(summary, summary')
     /\ \A n \in Files(fastq) : n \in Files(fastq') /\ IsPrefix(fastq[n], fastq'[n])
     /\ FilesKept(guppy_logs, guppy_logs')
     /\ FilesKept(guppy_telemetry, guppy_telemetry')]_vars

\* Two batches were merged, each with a telemetry file, and guppy_telemetry
\* holds one file.
C9_TelemetryOverwritten ==
  /\ pc = "ledger"
  /\ invocations = 2
  /\ Cardinality(Files(guppy_telemetry)) = 1

\* C10: outside the with block of basecall_reads no temporary directory
\* exists, whichever way the block was left.
C10_ScratchRemoved ==
  pc \notin InWith =>
    /\ ~temp_dir
    /\ temp_in = <<>>
    /\ temp_out = NoFragment

\* Staging a batch of two files failed.
C10_StagingFailed ==
  /\ pc = "crashed"
  /\ error = "OSError"
  /\ invocations = 0
  /\ Len(new_fast5s) = 2

\* C11: the ledger is append-only and only the step that follows a finished
\* merge changes it: over every step its content is a prefix of its new
\* content, and a step that changes it is add_to_already_basecalled.
C11_LedgerAppendOnly ==
  [][/\ IsPrefix(ledger, ledger')
     /\ (ledger' # ledger \/ ledger_mode' # ledger_mode) =>
          /\ pc = "ledger"
          /\ pc' = "trans_speed"
          /\ ledger' = ledger \o LedgerText(new_fast5s)]_vars

\* A second batch is appended to a ledger that holds the first.
C11_SecondBatchAppended ==
  /\ pc = "trans_speed"
  /\ invocations = 2
  /\ Len(FileLines(ledger)) >= 2

\* C12: in a run that starts with a ledger without duplicates, every
\* identifier is on at most one line of the ledger.
C12_LedgerUnique == NoDuplicates(FileLines(ledger))

\* One batch of two files with the same base name was written to the ledger.
C12_SameNameTwice ==
  /\ pc = "trans_speed"
  /\ invocations = 1
  /\ new_fast5s = <<Fast5("d1", NameA), Fast5("d2", NameA)>>
  /\ ledger = NameA \o <<NL>> \o NameA \o <<NL>>

\* C13: the output of a Guppy run that succeeded is merged exactly once and
\* then discarded, and no input file is given to Guppy in two batches.
C13_MergedOnceSubmittedOnce ==
  /\ NoDuplicates(merged)
  /\ pc \in {"ledger", "trans_speed", "barcode_dist", "overall"} =>
       merged # <<>> /\ merged[Len(merged)] = invocations
  /\ pc \notin InWith => temp_out = NoFragment
  /\ \A i, j \in DOMAIN submitted :
       i < j => Range(submitted[i]) \cap Range(submitted[j]) = {}

\* A file is in the batches of two Guppy runs.
C13_FileSubmittedTwice ==
  \E i, j \in DOMAIN submitted :
    i < j /\ Range(submitted[i]) \cap Range(submitted[j]) # {}

\* C14: an interrupt while the loop is idle or between iterations ends the
\* process at once and cleanly: the step leaves the ledger, the consolidated
\* outputs and the error state as they were, and no step follows it.
C14_InterruptWhileIdle ==
  [][/\ (pc \in {"loop", "scan", "sleep"} /\ pc' = "interrupted") =>
          /\ ledger' = ledger
          /\ ledger_mode' = ledger_mode
          /\ outVars' = outVars
          /\ error' = "none"
          /\ ~temp_dir'
     /\ pc # "interrupted"]_vars

\* Interrupted after a batch was merged and an empty scan followed.
C14_InterruptedAfterEmptyScan ==
  /\ pc = "interrupted"
  /\ invocations >= 1
  /\ idle_ticks >= 1
  /\ new_fast5s = <<>>

\* C15: a ledger that is missing or cannot be read is taken as empty: the
\* scan does not fail, and every file of the tree is new.
C15_UnreadableLedgerIsEmpty ==
  /\ error # "PermissionError"
  /\ (ledger_mode \in {"absent", "unreadable"} /\ pc \in {"stage", "sleep"}) =>
       new_fast5s = Take(Sorted(tree), batch_size)

\* The scan of a tree with files failed on a ledger that cannot be read.
C15_ScanFailed ==
  /\ pc = "crashed"
  /\ error = "PermissionError"
  /\ ledger_mode = "unreadable"
  /\ tree # {}
  /\ invocations = 0

\* The position that follows each position of a batch when nothing fails.
NextPosition(p) ==
  CASE p = "stage" -> {"stage", "guppy"}
    [] p = "guppy" -> {"merge_logs"}
    [] p = "merge_logs" -> {"merge_telemetry"}
    [] p = "merge_telemetry" -> {"merge_summary"}
    [] p = "merge_summary" -> {"merge_fastq"}
    [] p = "merge_fastq" -> {"ledger"}
    [] p = "ledger" -> {"trans_speed"}
    [] p = "trans_speed" -> {"barcode_dist", "overall"}
    [] p = "barcode_dist" -> {"overall"}
    [] p = "overall" -> {"loop"}
    [] OTHER -> {}

C17_StopCheckedBeforeScan ==
  [][/\ (pc = "loop" /\ StopCondition(minutes_since_last_read, stop_time)) =>
          pc' \in {"stopped", "interrupted"}
     /\ (pc' = "scan" /\ pc # "scan") =>
          pc = "loop" /\ ~StopCondition(minutes_since_last_read, stop_time)
     /\ (pc = "sleep" /\ pc' # "interrupted") =>
          /\ new_fast5s = <<>>
          /\ minutes_since_last_read' = DblAdd(minutes_since_last_read, TickMinutes)
          /\ idle_ticks' = idle_ticks + 1
     /\ minutes_since_last_read' # minutes_since_last_read =>
          pc \in {"sleep", "overall"}
     /\ (pc = "overall" /\ pc' = "loop") =>
          minutes_since_last_read' = DblZero /\ idle_ticks' = 0
     /\ pc' = "stopped" =>
          /\ pc \in {"loop", "stopped"}
          /\ new_fast5s = <<>>
          /\ idle_ticks * 10 >= stop_time * 60]_vars

\* The loop stops under a threshold of 2 minutes after a batch reset the
\* idle time.
C17_StoppedAfterBatch ==
  /\ pc = "stopped"
  /\ stop_time = 2
  /\ invocations >= 1
  /\ idle_ticks = 12

\* The rows of a summary text that are not header rows: the first column is
\* not the label 'filename'.
DataRows(text) ==
  LET IsData(line) == line.filename # <<HeaderLabel>>
  IN SelectSeq(text, IsData)

\* The data rows of a list of summary files, in order.
RECURSIVE AllDataRows(_)
AllDataRows(files) ==
  IF files = <<>> THEN <<>>
  ELSE DataRows(Head(files)) \o AllDataRows(Tail(files))

\* C18: merge_summary skips header rows only: after the merge the data rows
\* of the consolidated summary are the ones it held followed by every data
\* row of every merged file, once and in source order.
C18_DataRowsKept ==
  [][pc = "merge_summary" =>
       DataRows(summary') = DataRows(summary) \o AllDataRows(temp_out.summaries)]_vars

\* A data row of a merged file is not in the consolidated summary.
C18_DataRowDropped ==
  /\ pc = "merge_fastq"
  /\ \E f \in DOMAIN temp_out.summaries :
       \E r \in DOMAIN temp_out.summaries[f] :
         /\ temp_out.summaries[f][r].filename = NameFilenameA
         /\ \A k \in DOMAIN summary : summary[k] # temp_out.summaries[f][r]

\* C19: staging overwrites no staged file and leaves the sources alone: the
\* staged files are one per member of the batch, in order, under distinct
\* names, a file keeping its name unless an earlier one of the batch took
\* it; every source is still in the tree.
C19_StagingKeepsEveryFile ==
  pc \in {"stage", "guppy"} =>
    /\ Len(temp_in) <= Len(new_fast5s)
    /\ pc = "guppy" => Len(temp_in) = Len(new_fast5s)
    /\ \A i \in DOMAIN temp_in :
         /\ temp_in[i].src = new_fast5s[i]
         /\ \/ temp_in[i].name = new_fast5s[i].name
            \/ \E j \in 1 .. (i - 1) : temp_in[j].name = new_fast5s[i].name
         /\ \A j \in DOMAIN temp_in : temp_in[j].name = temp_in[i].name => j = i
    /\ \A i \in DOMAIN new_fast5s : new_fast5s[i] \in tree

\* Two files with the same base name are staged, the second under a fresh
\* name.
C19_CollisionRenamed ==
  /\ pc = "guppy"
  /\ Len(temp_in) = 2
  /\ temp_in[1].name = NameA
  /\ temp_in[2].name = UuidName(1)
  /\ temp_in[2].src.name = NameA

\* The destination the claim names for a fastq file: reads.fastq without
\* barcoding; else the leftmost barcodeNN of the path, or unclassified.
ClaimedDestination(kit, path) ==
  IF kit.kind = "none" THEN <<"reads", ".fastq">>
  ELSE LET at == {i \in 1 .. (Len(path) - 2) :
                    path[i] = "barcode" /\ path[i + 1] \in Digits /\ path[i + 2] \in Digits}
       IN IF at = {} THEN <<"unclassified", ".fastq">>
          ELSE LET m == CHOOSE i \in at : \A j \in at : i <= j
               IN <<"barcode", path[m + 1], path[m + 2], ".fastq">>

\* The lines of the files of a list whose claimed destination is name, in
\* order.
RECURSIVE LinesFor(_, _, _)
LinesFor(kit, files, name) ==
  IF files = <<>> THEN <<>>
  ELSE (IF ClaimedDestination(kit, Head(files).path) = name
        THEN Head(files).lines ELSE <<>>)
       \o LinesFor(kit, Tail(files), name)

\* C20: every fastq file of a fragment goes to reads.fastq without barcoding,
\* else to <barcodeNN>.fastq for the token in its path or to
\* unclassified.fastq when there is none, and its lines are appended there,
\* in order and as they are, and nowhere else.
C20_FastqDestination ==
  [][pc = "merge_fastq" =>
       /\ Files(fastq') =
            Files(fastq) \cup
              {ClaimedDestination(barcodes, temp_out.fastqs[i].path) :
                 i \in DOMAIN temp_out.fastqs}
       /\ \A n \in Files(fastq') :
            fastq'[n] = ReadFile(fastq, n) \o LinesFor(barcodes, temp_out.fastqs, n)]_vars

\* Two fastq files of one fragment were appended to the barcode01.fastq of
\* an earlier batch.
C20_TwoFilesAppended ==
  /\ pc = "ledger"
  /\ barcodes.kind # "none"
  /\ <<"barcode", "0", "1", ".fastq">> \in Files(fastq)
  /\ Len(fastq[<<"barcode", "0", "1", ".fastq">>]) >= 4

\* The rows of a summary that carry the category name, by position.
CategoryRows(data, name) == {r \in DOMAIN data : data[r].barcode = name}

\* The lengths of the rows at the positions S, added up.
RECURSIVE SumLengths(_, _)
SumLengths(data, S) ==
  IF S = {} THEN 0
  ELSE LET r == CHOOSE x \in S : TRUE
       IN data[r].sequence_length + SumLengths(data, S \ {r})

\* L is the N50 of the rows at the positions S: 0 when there are none,
\* otherwise the greatest of their lengths from which upwards the lengths
\* sum to at least half the total.
IsN50Of(data, S, L) ==
  LET AtLeast(x) == {r \in S : data[r].sequence_length >= x}
      Half(x) == 2 * SumLengths(data, AtLeast(x)) >= SumLengths(data, S)
  IN IF S = {} THEN L = 0
     ELSE /\ \E r \in S : data[r].sequence_length = L
          /\ Half(L)
          /\ \A r \in S : data[r].sequence_length > L => ~Half(data[r].sequence_length)

\* The summary of the example: 100 and 50 bases under barcode01, 200
\* unclassified, and a kit of barcode 01 alone.
ExampleSummary ==
  /\ barcodes = Kit1to1
  /\ summary = <<HeaderRow,
                 DataRow(NameA, "run1", 30, 100, BarcodeName(1)),
                 DataRow(NameA, "run1", 30, 50, BarcodeName(1)),
                 DataRow(NameA, "run1", 30, 200, Unclassified)>>

C22_RecordedAfterMerged ==
  [][ledger' # ledger =>
       LET old == Len(FileLines(ledger))
           lines == FileLines(ledger')
       IN /\ merged # <<>>
          /\ merged[Len(merged)] = invocations
          /\ Len(submitted) = invocations
          /\ submitted[invocations] = new_fast5s
          /\ ~temp_dir
          /\ Len(lines) = old + Len(new_fast5s)
          /\ \A k \in 1 .. Len(new_fast5s) :
               /\ lines[old + k] = new_fast5s[k].name \o <<NL>>
               /\ \E r \in DOMAIN summary :
                    /\ summary[r] # HeaderRow
                    /\ summary[r].filename = new_fast5s[k].name
               /\ \E n \in Files(fastq) : \E j \in DOMAIN fastq[n] :
                    fastq[n][j][1] = new_fast5s[k].name]_vars

\* filenamea.fast5 is the last line of the ledger and the consolidated
\* summary has no row for it.
C22_RecordedWithoutRow ==
  /\ pc = "trans_speed"
  /\ FileLines(ledger) # <<>>
  /\ FileLines(ledger)[Len(FileLines(ledger))] = NameFilenameA \o <<NL>>
  /\ \A r \in DOMAIN summary : summary[r].filename # NameFilenameA

\* Every file of the tree is on a line of the ledger.
AllRecorded ==
  \A f \in tree : \E k \in DOMAIN FileLines(ledger) : FileLines(ledger)[k] = f.name \o <<NL>>

\* The files of the tree that are on no line of the ledger text.
NewFiles(text) ==
  {f \in tree : \A k \in DOMAIN FileLines(text) : FileLines(text)[k] # f.name \o <<NL>>}

\* ceil(n / size)
Ceil(n, size) == (n + size - 1) \div size

\* C23: with the tree complete at the start, base names pairwise distinct
\* and every step succeeding, the loop under weak fairness gives a batch to
\* Guppy only while some file of the tree is not in the ledger, never runs
\* more than ceil(n / batch_size) batches, n being the number of files the
\* ledger did not hold at the start, and ends for good in Stopped with every
\* file of the tree in the ledger and exactly that many batches run.
C23_AllRecordedThenStopped ==
  /\ [][invocations' > invocations => ~AllRecorded]_vars
  /\ \A p \in FairPriors :
       ledger = p.ledger =>
         /\ [](invocations <= Ceil(Cardinality(NewFiles(p.ledger)), batch_size))
         /\ <>[](/\ pc = "stopped"
                 /\ AllRecorded
                 /\ invocations = Ceil(Cardinality(NewFiles(p.ledger)), batch_size))

\* The only file of the tree is in the ledger and has been given to Guppy a
\* second time.
C23_RecordedFileResubmitted ==
  /\ Cardinality(tree) = 1
  /\ AllRecorded
  /\ invocations = 2
  /\ pc = "merge_logs"

====
